---- MODULE Spec2Model ----
(***************************************************************************)
(* Model of the TaskManager persistence/query layer of                     *)
(* PersonalTaskManager.py: Task, TaskManager.load_tasks, save_tasks,       *)
(* add_task, update_task, delete_task, filter_tasks and sort_tasks, the    *)
(* backing JSON file, and a caller that holds the list a query returned.   *)
(*                                                                         *)
(* A Python str is a sequence of one-character strings, so that lower(),   *)
(* the `in` substring test and the code point ordering used by sorted()    *)
(* are computed rather than assumed.                                       *)
(***************************************************************************)
EXTENDS Integers, Sequences, FiniteSets, TLC

VARIABLES
    pc,       \* "new": no TaskManager yet; "ready": constructed; "failed": __init__ raised
    file,     \* contents of the backing file (self.filename)
    tasks,    \* self.tasks
    op,       \* the last call made
    args,     \* its arguments
    ret,      \* its outcome: "None", "True", "False", "list", or the exception raised
    io,       \* what save_tasks did in it: "none", "ok", "open_failed", "write_failed"
    tasks0,   \* self.tasks when the call was made
    file0,    \* the file when the call was made
    res,      \* the list object the caller holds from the last filter/sort call
    aliased,  \* TRUE when that object is self.tasks itself
    faults    \* failed saves and mutations of a returned list so far

vars == <<pc, file, tasks, op, args, ret, io, tasks0, file0, res, aliased, faults>>

(***************************************************************************)
(* Bounds                                                                  *)
(***************************************************************************)
\* add_task is not called on a store that already holds this many tasks
MaxTasks == 2
\* at most this many saves fail or returned lists are mutated in one run
MaxFaults == 1

(***************************************************************************)
(* Python str                                                              *)
(***************************************************************************)
\* ord(c) for the characters the model uses
Ord(c) ==
    CASE c = "-" -> 45
      [] c = "0" -> 48 [] c = "1" -> 49 [] c = "2" -> 50 [] c = "4" -> 52
      [] c = "5" -> 53
      [] c = "A" -> 65 [] c = "B" -> 66 [] c = "H" -> 72 [] c = "L" -> 76
      [] c = "M" -> 77
      [] c = "a" -> 97 [] c = "b" -> 98 [] c = "c" -> 99 [] c = "d" -> 100
      [] c = "e" -> 101 [] c = "g" -> 103 [] c = "h" -> 104 [] c = "i" -> 105
      [] c = "l" -> 108 [] c = "m" -> 109 [] c = "o" -> 111 [] c = "u" -> 117
      [] c = "w" -> 119

\* str.lower() on one character
LowerChar(c) ==
    CASE c = "A" -> "a" [] c = "B" -> "b" [] c = "H" -> "h" [] c = "L" -> "l"
      [] c = "M" -> "m" [] OTHER -> c

\* str.lower()
Lower(s) == [i \in 1..Len(s) |-> LowerChar(s[i])]

\* `a in b` for two strs: a is a contiguous substring of b
Contains(b, a) ==
    \E k \in 0..(Len(b) - Len(a)) : \A i \in 1..Len(a) : b[k + i] = a[i]

\* `a < b` for two strs: lexicographic by code point, a proper prefix is smaller
RECURSIVE StrLess(_, _)
StrLess(a, b) ==
    IF b = <<>> THEN FALSE
    ELSE IF a = <<>> THEN TRUE
    ELSE IF Ord(Head(a)) # Ord(Head(b)) THEN Ord(Head(a)) < Ord(Head(b))
    ELSE StrLess(Tail(a), Tail(b))

\* truthiness of a str: the empty str is falsy
Truthy(s) == s # <<>>

(***************************************************************************)
(* Task                                                                    *)
(***************************************************************************)
Keys == {"id", "name", "description", "priority", "due_date"}

\* Task.__init__: `fresh` is the value str(uuid.uuid4()) would produce
Task(name, description, priority, due_date, task_id, fresh) ==
    [id          |-> IF Truthy(task_id) THEN task_id ELSE fresh,
     name        |-> name,
     description |-> description,
     priority    |-> priority,
     due_date    |-> due_date]

\* to_dict with the values of "priority" and "due_date" written under each
\* other's key
to_dict_swapped(t) ==
    [k \in Keys |->
        CASE k = "id" -> t.id
          [] k = "name" -> t.name
          [] k = "description" -> t.description
          [] k = "priority" -> t.due_date
          [] k = "due_date" -> t.priority]

\* Task.to_dict: the JSON object written for one task
to_dict(t) ==
    [k \in Keys |->
        CASE k = "id" -> t.id
          [] k = "name" -> t.name
          [] k = "description" -> t.description
          [] k = "priority" -> t.priority
          [] k = "due_date" -> t.due_date]

\* getattr(task, key)
getattr(t, key) ==
    CASE key = "id" -> t.id
      [] key = "name" -> t.name
      [] key = "description" -> t.description
      [] key = "priority" -> t.priority
      [] key = "due_date" -> t.due_date

(***************************************************************************)
(* The backing file                                                        *)
(*   kind "absent": no such file (open(..., "r") raises FileNotFoundError) *)
(*   kind "text":   text json.load cannot parse, the empty file included   *)
(*   kind "scalar": a JSON document that is a number                       *)
(*   kind "list":   a JSON array of objects; an object is a function from  *)
(*                  the keys it has to their values                        *)
(***************************************************************************)
Absent == [kind |-> "absent", items |-> <<>>]
Text == [kind |-> "text", items |-> <<>>]
Scalar == [kind |-> "scalar", items |-> <<>>]
Document(items) == [kind |-> "list", items |-> items]

\* TaskManager.load_tasks; `fresh` is the uuid a record with a falsy id gets.
\* Only FileNotFoundError and json.JSONDecodeError are caught.
load_tasks(f, fresh) ==
    CASE f.kind = "absent" -> [err |-> "none", tasks |-> <<>>]
      [] f.kind = "text" -> [err |-> "none", tasks |-> <<>>]
      [] f.kind = "scalar" -> [err |-> "TypeError", tasks |-> <<>>]
      [] f.kind = "list" ->
           IF \E i \in 1..Len(f.items) : ~(Keys \subseteq DOMAIN f.items[i])
           THEN [err |-> "KeyError", tasks |-> <<>>]
           ELSE [err |-> "none",
                 tasks |-> [i \in 1..Len(f.items) |->
                              Task(f.items[i]["name"], f.items[i]["description"],
                                   f.items[i]["priority"], f.items[i]["due_date"],
                                   f.items[i]["id"], fresh)]]

\* json.dump([task.to_dict() for task in self.tasks], file, indent=4)
dump(ts) == Document([i \in 1..Len(ts) |-> to_dict(ts[i])])

\* TaskManager.save_tasks, by what the file system does:
\*   "ok":           the file is overwritten with the whole list
\*   "open_failed":  open(..., "w") raises, the file is untouched
\*   "write_failed": open truncated the file and the write raised before a
\*                   whole document was on disk
save_tasks(ts, f, outcome) ==
    CASE outcome = "ok" -> dump(ts)
      [] outcome = "open_failed" -> f
      [] outcome = "write_failed" -> Text

SaveOutcomes == {"ok", "open_failed", "write_failed"}

\* the outcomes a save can have once n saves have failed or lists been mutated
Outcomes(n) == IF n < MaxFaults THEN SaveOutcomes ELSE {"ok"}

\* the count after a save with this outcome
Counted(n, outcome) == IF outcome \in {"ok", "none"} THEN n ELSE n + 1

\* what a call that saved returns: None/True, or the OSError of the save
Returned(value, outcome) == IF outcome = "ok" THEN value ELSE "OSError"

(***************************************************************************)
(* TaskManager operations on the task list, as functions of the list       *)
(***************************************************************************)
\* the loop of update_task: the index of the first task whose id is task_id,
\* scanning from index i; 0 when the loop ends without a match
RECURSIVE update_scan(_, _, _)
update_scan(ts, task_id, i) ==
    IF i > Len(ts) THEN 0
    ELSE IF ts[i].id = task_id THEN i
    ELSE update_scan(ts, task_id, i + 1)

\* update_task replacing every task whose id is task_id, not the first only
update_task_all(ts, task_id, updated_task) ==
    [found |-> \E i \in 1..Len(ts) : ts[i].id = task_id,
     tasks |-> [i \in 1..Len(ts) |->
                  IF ts[i].id = task_id THEN updated_task ELSE ts[i]]]

\* update_task appending the task when no id matches, and reporting success
update_task_upsert(ts, task_id, updated_task) ==
    LET i == update_scan(ts, task_id, 1)
    IN  IF i = 0 THEN [found |-> TRUE, tasks |-> Append(ts, updated_task)]
        ELSE [found |-> TRUE, tasks |-> [ts EXCEPT ![i] = updated_task]]

\* update_task without its save: the list afterwards and whether a task matched
update_task(ts, task_id, updated_task) ==
    LET i == update_scan(ts, task_id, 1)
    IN  IF i = 0 THEN [found |-> FALSE, tasks |-> ts]
        ELSE [found |-> TRUE, tasks |-> [ts EXCEPT ![i] = updated_task]]

\* delete_task removing the first match only, as list.remove would
delete_task_first(ts, task_id) ==
    LET i == update_scan(ts, task_id, 1)
    IN  IF i = 0 THEN ts ELSE SubSeq(ts, 1, i - 1) \o SubSeq(ts, i + 1, Len(ts))

\* delete_task without its save: [task for task in self.tasks if task.id != task_id]
delete_task(ts, task_id) == SelectSeq(ts, LAMBDA task : task.id # task_id)

All == <<"A", "l", "l">>

\* filter_tasks comparing the name without lower()
filter_tasks_case_sensitive(ts, name_filter, priority_filter, due_date_filter) ==
    LET f1 == IF Truthy(name_filter)
              THEN SelectSeq(ts, LAMBDA t : Contains(t.name, name_filter))
              ELSE ts
        f2 == IF priority_filter # All
              THEN SelectSeq(f1, LAMBDA t : t.priority = priority_filter)
              ELSE f1
        f3 == IF Truthy(due_date_filter)
              THEN SelectSeq(f2, LAMBDA t : t.due_date = due_date_filter)
              ELSE f2
    IN  f3

\* filter_tasks: the list returned
filter_tasks(ts, name_filter, priority_filter, due_date_filter) ==
    LET f1 == IF Truthy(name_filter)
              THEN SelectSeq(ts, LAMBDA t : Contains(Lower(t.name), Lower(name_filter)))
              ELSE ts
        f2 == IF priority_filter # All
              THEN SelectSeq(f1, LAMBDA t : t.priority = priority_filter)
              ELSE f1
        f3 == IF Truthy(due_date_filter)
              THEN SelectSeq(f2, LAMBDA t : t.due_date = due_date_filter)
              ELSE f2
    IN  f3

\* filter_tasks: TRUE when the object returned is self.tasks itself, which is
\* the case when no branch rebinds `filtered` to a new list
filter_returns_self(name_filter, priority_filter, due_date_filter) ==
    ~Truthy(name_filter) /\ ~(priority_filter # All) /\ ~Truthy(due_date_filter)

\* insort placing x before the first element whose key is not smaller than
\* its own, so before the elements with an equal key
insort_unstable(acc, x, key) ==
    LET later == {i \in 1..Len(acc) : ~StrLess(getattr(acc[i], key), getattr(x, key))}
        p == IF later = {} THEN Len(acc) + 1
             ELSE CHOOSE i \in later : \A j \in later : i <= j
    IN  SubSeq(acc, 1, p - 1) \o <<x>> \o SubSeq(acc, p, Len(acc))

\* one step of sorted(): x goes before the first element whose key is greater
\* than its own, so after every element with an equal key (stable)
insort(acc, x, key) ==
    LET later == {i \in 1..Len(acc) : StrLess(getattr(x, key), getattr(acc[i], key))}
        p == IF later = {} THEN Len(acc) + 1
             ELSE CHOOSE i \in later : \A j \in later : i <= j
    IN  SubSeq(acc, 1, p - 1) \o <<x>> \o SubSeq(acc, p, Len(acc))

\* sort_tasks: sorted(self.tasks, key=lambda task: getattr(task, key))
RECURSIVE sort_tasks(_, _)
sort_tasks(ts, key) ==
    IF ts = <<>> THEN <<>>
    ELSE insort(sort_tasks(SubSeq(ts, 1, Len(ts) - 1), key), ts[Len(ts)], key)

(***************************************************************************)
(* Inputs                                                                  *)
(***************************************************************************)
High == <<"H", "i", "g", "h">>
Medium == <<"M", "e", "d", "i", "u", "m">>
Low == <<"L", "o", "w">>
Jan01 == <<"2", "0", "2", "4", "-", "0", "1", "-", "0", "1">>
Jan05 == <<"2", "0", "2", "4", "-", "0", "1", "-", "0", "5">>

\* values of str(uuid.uuid4())
Uuids == {<<"c">>, <<"d">>}
\* the ids callers pass
Ids == {<<"a">>} \cup Uuids

\* the tasks callers construct: two share the id "a", a priority and a
\* description; two share a due date; the names differ in case; one is
\* constructed without an id
TaskA == Task(<<"A", "b">>, <<>>, High, Jan01, <<"a">>, <<"c">>)
TaskA2 == Task(<<"a", "B">>, <<>>, High, Jan05, <<"a">>, <<"c">>)
TaskC == Task(<<"b">>, <<"d">>, Low, Jan05, <<>>, <<"c">>)
TaskPool == {TaskA, TaskA2, TaskC}

NameFilters == {<<>>, <<"A", "B">>}
PriorityFilters == {All, High}
DueDateFilters == {<<>>, Jan05}

\* what the file may hold when the program starts: nothing, text that is not
\* JSON, JSON of the wrong shape (a number, an object without all five keys),
\* an empty array, and an array of two records, the first with an empty id
InitialFiles ==
    { Absent, Text, Scalar, Document(<<>>),
      Document(<<[id |-> <<"a">>, name |-> <<"A", "b">>]>>),
      Document(<<[to_dict(TaskC) EXCEPT !["id"] = <<>>], to_dict(TaskA)>>) }

(***************************************************************************)
(* Actions                                                                 *)
(***************************************************************************)
Init ==
    /\ pc = "new"
    /\ file \in InitialFiles
    /\ tasks = <<>>
    /\ op = "none"
    /\ args = <<>>
    /\ ret = "None"
    /\ io = "none"
    /\ tasks0 = <<>>
    /\ file0 = file
    /\ res = <<>>
    /\ aliased = FALSE
    /\ faults = 0

\* TaskManager(filename): __init__ calls load_tasks; an exception it does not
\* catch leaves the caller without a TaskManager
Construct ==
    \E fresh \in Uuids :
        LET r == load_tasks(file, fresh)
        IN  /\ pc' = IF r.err = "none" THEN "ready" ELSE "failed"
            /\ tasks' = r.tasks
            /\ op' = "init"
            /\ args' = <<>>
            /\ ret' = IF r.err = "none" THEN "None" ELSE r.err
            /\ io' = "none"
            /\ tasks0' = tasks
            /\ file0' = file
            /\ res' = <<>>
            /\ aliased' = FALSE
            /\ UNCHANGED <<file, faults>>

\* add_task(task): append, then save
AddTask ==
    /\ pc = "ready"
    /\ Len(tasks) < MaxTasks
    /\ \E task \in TaskPool, outcome \in Outcomes(faults) :
        /\ tasks' = Append(tasks, task)
        /\ file' = save_tasks(tasks', file, outcome)
        /\ op' = "add_task"
        /\ args' = [task |-> task]
        /\ ret' = Returned("None", outcome)
        /\ io' = outcome
    /\ tasks0' = tasks
    /\ file0' = file
    /\ res' = <<>>
    /\ aliased' = FALSE
    /\ faults' = Counted(faults, io')
    /\ UNCHANGED pc

\* update_task(task_id, updated_task): replace the first match and save, or
\* return False without saving
UpdateTask ==
    /\ pc = "ready"
    /\ \E task_id \in Ids, updated_task \in TaskPool, outcome \in Outcomes(faults) :
        LET u == update_task(tasks, task_id, updated_task)
        IN  /\ tasks' = u.tasks
            /\ op' = "update_task"
            /\ args' = [task_id |-> task_id, updated_task |-> updated_task]
            /\ IF u.found
               THEN /\ file' = save_tasks(tasks', file, outcome)
                    /\ ret' = Returned("True", outcome)
                    /\ io' = outcome
               ELSE /\ file' = file
                    /\ ret' = "False"
                    /\ io' = "none"
    /\ tasks0' = tasks
    /\ file0' = file
    /\ res' = <<>>
    /\ aliased' = FALSE
    /\ faults' = Counted(faults, io')
    /\ UNCHANGED pc

\* delete_task(task_id): rebuild the list without the matches, then save
DeleteTask ==
    /\ pc = "ready"
    /\ \E task_id \in Ids, outcome \in Outcomes(faults) :
        /\ tasks' = delete_task(tasks, task_id)
        /\ file' = save_tasks(tasks', file, outcome)
        /\ op' = "delete_task"
        /\ args' = [task_id |-> task_id]
        /\ ret' = Returned("None", outcome)
        /\ io' = outcome
    /\ tasks0' = tasks
    /\ file0' = file
    /\ res' = <<>>
    /\ aliased' = FALSE
    /\ faults' = Counted(faults, io')
    /\ UNCHANGED pc

\* filter_tasks(name_filter, priority_filter, due_date_filter): the caller
\* keeps the list returned
FilterTasks ==
    /\ pc = "ready"
    /\ \E nf \in NameFilters, pf \in PriorityFilters, df \in DueDateFilters :
        /\ res' = filter_tasks(tasks, nf, pf, df)
        /\ aliased' = filter_returns_self(nf, pf, df)
        /\ args' = [name_filter |-> nf, priority_filter |-> pf, due_date_filter |-> df]
    /\ op' = "filter_tasks"
    /\ ret' = "list"
    /\ io' = "none"
    /\ tasks0' = tasks
    /\ file0' = file
    /\ UNCHANGED <<pc, file, tasks, faults>>

\* sort_tasks(key): sorted() builds a new list; the caller keeps it
SortTasks ==
    /\ pc = "ready"
    /\ \E key \in Keys :
        /\ res' = sort_tasks(tasks, key)
        /\ args' = [key |-> key]
    /\ aliased' = FALSE
    /\ op' = "sort_tasks"
    /\ ret' = "list"
    /\ io' = "none"
    /\ tasks0' = tasks
    /\ file0' = file
    /\ UNCHANGED <<pc, file, tasks, faults>>

\* list.reverse()
Reverse(s) == [i \in 1..Len(s) |-> s[Len(s) + 1 - i]]

\* what the caller does to the list it was handed
mutate_list(l, how, t) ==
    CASE how = "append" -> Append(l, t)
      [] how = "pop" -> SubSeq(l, 1, Len(l) - 1)
      [] how = "reverse" -> Reverse(l)

\* The caller appends to, pops from or reverses the list the last query
\* returned. When that list is self.tasks, the store's list is the one changed.
CallerMutates ==
    /\ pc = "ready"
    /\ faults < MaxFaults
    /\ op \in {"filter_tasks", "sort_tasks"}
    /\ \E how \in {"append", "pop", "reverse"}, t \in TaskPool :
        /\ how = "append" => Len(res) < MaxTasks
        /\ how = "pop" => res # <<>>
        /\ res' = mutate_list(res, how, t)
        /\ args' = [how |-> how]
    /\ tasks' = IF aliased THEN res' ELSE tasks
    /\ op' = "caller_mutates"
    /\ ret' = "None"
    /\ io' = "none"
    /\ tasks0' = tasks
    /\ file0' = file
    /\ faults' = faults + 1
    /\ UNCHANGED <<pc, file, aliased>>

Next ==
    \/ Construct
    \/ AddTask
    \/ UpdateTask
    \/ DeleteTask
    \/ FilterTasks
    \/ SortTasks
    \/ CallerMutates

Spec == Init /\ [][Next]_vars

(***************************************************************************)
(* Properties                                                              *)
(***************************************************************************)
Mutators == {"add_task", "update_task", "delete_task"}

\* the last call was a mutating call that returned success: add_task or
\* delete_task returned, or update_task returned True
Succeeded ==
    \/ op \in {"add_task", "delete_task"} /\ ret = "None"
    \/ op = "update_task" /\ ret = "True"

\* the indices of the tasks of ts whose id is x
IndicesOf(ts, x) == {i \in 1..Len(ts) : ts[i].id = x}

\* the smallest element of a non-empty set of numbers
Min(S) == CHOOSE i \in S : \A j \in S : i <= j

\* a and b have the same length and the same five fields at every position
SameTasks(a, b) ==
    /\ Len(a) = Len(b)
    /\ \A i \in 1..Len(a) : \A k \in Keys : getattr(a[i], k) = getattr(b[i], k)

\* C1: whenever a mutating call has returned success, a fresh TaskManager on
\* the same file loads, without error, a list equal to the store's list:
\* same length, same order, same five fields at every position.
PersistenceDurability ==
    Succeeded =>
        \A fresh \in Uuids :
            /\ load_tasks(file, fresh).err = "none"
            /\ SameTasks(load_tasks(file, fresh).tasks, tasks)

\* a second add_task succeeded after a save had failed and left the file behind
PersistenceDurabilityWitness ==
    /\ op = "add_task"
    /\ ret = "None"
    /\ Len(tasks) = 2
    /\ tasks[1] # tasks[2]
    /\ file0 # dump(tasks0)

\* C2: after any add_task, update_task or delete_task call, no two tasks of
\* the store have the same id.
IdUniqueness ==
    op \in Mutators =>
        \A i, j \in 1..Len(tasks) : i # j => tasks[i].id # tasks[j].id

\* C3: a mutating call whose save raised changed nothing: the list and the
\* file are as they were before the call.
NoPartialApplication ==
    (op \in Mutators /\ ret = "OSError") => (tasks = tasks0 /\ file = file0)

\* C4: update_task(A.id, B) with B.id = A.id, on a store where i is the first
\* index holding the id, leaves B at index i, the length and every other
\* position unchanged, and, when the call returns, returns True.
UpdateReplacesInPlace ==
    (/\ op = "update_task"
     /\ args.updated_task.id = args.task_id
     /\ IndicesOf(tasks0, args.task_id) # {}) =>
        LET i == Min(IndicesOf(tasks0, args.task_id))
        IN  /\ ret # "False"
            /\ io = "ok" => ret = "True"
            /\ Len(tasks) = Len(tasks0)
            /\ tasks[i] = args.updated_task
            /\ \A j \in 1..Len(tasks0) : j # i => tasks[j] = tasks0[j]

\* update_task returned True on a store holding the id twice, with a
\* replacement that differs from both
UpdateReplacesInPlaceWitness ==
    /\ op = "update_task"
    /\ ret = "True"
    /\ args.updated_task.id = args.task_id
    /\ IndicesOf(tasks0, args.task_id) = {1, 2}
    /\ tasks0[1] # tasks0[2]
    /\ tasks # tasks0

\* C5: update_task with an id no stored task has returns False, leaves the
\* list unchanged and does not write the file.
UpdateTargetNotFound ==
    (op = "update_task" /\ IndicesOf(tasks0, args.task_id) = {}) =>
        /\ ret = "False"
        /\ tasks = tasks0
        /\ io = "none"
        /\ file = file0

\* update_task returned False on a store of two tasks
UpdateTargetNotFoundWitness ==
    /\ op = "update_task"
    /\ IndicesOf(tasks0, args.task_id) = {}
    /\ ret = "False"
    /\ Len(tasks0) = 2

\* the j-th smallest element of a set of numbers
Nth(S, j) == CHOOSE i \in S : Cardinality({k \in S : k <= i}) = j

\* C6: after delete_task(x) the list is the previous list without the tasks
\* whose id is x, the others in their order; it is unchanged when no task had
\* the id; and a save was made, which, when it succeeded, left the file
\* holding one record per task of the resulting list, in order.
DeleteRemovesEvery ==
    op = "delete_task" =>
        LET x == args.task_id
            kept == {i \in 1..Len(tasks0) : tasks0[i].id # x}
        IN  /\ IndicesOf(tasks, x) = {}
            /\ Len(tasks) = Cardinality(kept)
            /\ \A j \in 1..Len(tasks) : tasks[j] = tasks0[Nth(kept, j)]
            /\ IndicesOf(tasks0, x) = {} => tasks = tasks0
            /\ io # "none"
            /\ io = "ok" =>
                /\ file.kind = "list"
                /\ Len(file.items) = Len(tasks)
                /\ \A i \in 1..Len(tasks) : \A k \in Keys :
                       file.items[i][k] = getattr(tasks[i], k)

\* delete_task removed the first of two tasks and kept the second
DeleteRemovesEveryWitness ==
    /\ op = "delete_task"
    /\ io = "ok"
    /\ Len(tasks0) = 2
    /\ tasks0[1].id = args.task_id
    /\ tasks = <<tasks0[2]>>

\* a is a substring of b, comparing characters without regard to case
ContainsIgnoringCase(b, a) ==
    \E k \in 0..(Len(b) - Len(a)) :
        \A i \in 1..Len(a) : LowerChar(b[k + i]) = LowerChar(a[i])

\* the three predicates of filter_tasks on one task
NameMatches(t, nf) == nf = <<>> \/ ContainsIgnoringCase(t.name, nf)
PriorityMatches(t, pf) == pf = All \/ t.priority = pf
DueDateMatches(t, df) == df = <<>> \/ t.due_date = df

\* the tasks of l that satisfy one criterion, in order
ByName(l, nf) == SelectSeq(l, LAMBDA t : NameMatches(t, nf))
ByPriority(l, pf) == SelectSeq(l, LAMBDA t : PriorityMatches(t, pf))
ByDueDate(l, df) == SelectSeq(l, LAMBDA t : DueDateMatches(t, df))

\* C7: filter_tasks returns exactly the stored tasks, in store order, that
\* satisfy all three predicates, and applying the three criteria in any of
\* the six orders gives that same list.
FilterExact ==
    op = "filter_tasks" =>
        LET nf == args.name_filter
            pf == args.priority_filter
            df == args.due_date_filter
        IN  /\ res = SelectSeq(tasks, LAMBDA t :
                       NameMatches(t, nf) /\ PriorityMatches(t, pf) /\ DueDateMatches(t, df))
            /\ res = ByDueDate(ByPriority(ByName(tasks, nf), pf), df)
            /\ res = ByPriority(ByDueDate(ByName(tasks, nf), df), pf)
            /\ res = ByDueDate(ByName(ByPriority(tasks, pf), nf), df)
            /\ res = ByName(ByDueDate(ByPriority(tasks, pf), df), nf)
            /\ res = ByPriority(ByName(ByDueDate(tasks, df), nf), pf)
            /\ res = ByName(ByPriority(ByDueDate(tasks, df), pf), nf)

\* all three criteria are active, both names match only without regard to
\* case, and the due date tells the two tasks apart
FilterExactWitness ==
    /\ op = "filter_tasks"
    /\ args.name_filter = <<"A", "B">>
    /\ args.priority_filter = High
    /\ args.due_date_filter = Jan05
    /\ tasks = <<TaskA, TaskA2>>
    /\ res = <<TaskA2>>

\* the bijections of 1..n onto itself
Rearrangements(n) == {f \in [1..n -> 1..n] : \A i, j \in 1..n : i # j => f[i] # f[j]}

\* C8: sort_tasks(f) returns a rearrangement of the store's list (the same
\* tasks, each as many times) that is non-decreasing in field f by string
\* comparison and keeps tasks with equal f in their order in the store.
SortStablePermutation ==
    op = "sort_tasks" =>
        LET f == args.key
            n == Len(tasks)
        IN  /\ Len(res) = n
            /\ \A i, j \in 1..n :
                   i < j => ~StrLess(getattr(res[j], f), getattr(res[i], f))
            /\ \E p \in Rearrangements(n) :
                   /\ \A i \in 1..n : res[i] = tasks[p[i]]
                   /\ \A i, j \in 1..n :
                          (i < j /\ getattr(res[i], f) = getattr(res[j], f)) => p[i] < p[j]

\* two different tasks with the same priority were sorted by priority
SortStablePermutationWitness ==
    /\ op = "sort_tasks"
    /\ args.key = "priority"
    /\ Len(tasks) = 2
    /\ tasks[1] # tasks[2]
    /\ tasks[1].priority = tasks[2].priority

\* C9: the caller appending to, removing from or reordering a list that
\* filter_tasks or sort_tasks returned changes neither the store's list nor
\* the file.
QueryResultsIndependent ==
    op = "caller_mutates" => (tasks = tasks0 /\ file = file0)

\* the file as it was before the construction is neither absent nor malformed:
\* a JSON array of objects that each carry the five keys
WellFormed(f) ==
    f.kind = "list" /\ \A i \in 1..Len(f.items) : Keys \subseteq DOMAIN f.items[i]

\* C10: constructing a TaskManager raises nothing; on an absent or malformed
\* file the list is empty, on a well-formed file it has one task per record
\* in file order.
LoadErrorsRecovered ==
    op = "init" =>
        /\ ret = "None"
        /\ ~WellFormed(file) => tasks = <<>>
        /\ WellFormed(file) =>
            /\ Len(tasks) = Len(file.items)
            /\ \A i \in 1..Len(tasks) : \A k \in Keys \ {"id"} :
                   getattr(tasks[i], k) = file.items[i][k]

====
